---- MODULE Spec2Model ----
(***************************************************************************)
(* Model of py532lib/i2c.py: the Pn532_i2c communication state machine.    *)
(*                                                                         *)
(* The interpreter's single thread of control is a call stack of frames    *)
(* (function, next statement, locals).  One step of an action executes the *)
(* statement the top frame points at.  SIGALRM is the process-wide alarm:  *)
(* while it is pending the kernel may deliver it before any statement, and *)
(* the installed handler then raises TimeoutException at that statement.   *)
(* Exceptions unwind the stack through the try/except/finally clauses of   *)
(* the source (Catch, Unwind).                                             *)
(*                                                                         *)
(* The model follows the Python 3 branches (sys.version_info > (3, 0)).    *)
(* The bus (quick2wire I2CMaster) and the frame codec (py532lib.frame) are *)
(* outside the file: a bus read or write may fault or succeed, a read may  *)
(* deliver undecodable bytes, an ACK frame, or a DATA frame.               *)
(***************************************************************************)
EXTENDS Integers, Sequences, FiniteSets, TLC

VARIABLES
    stack,      \* call stack of the library, <<>> when no operation runs
    handler,    \* the installed SIGALRM handler
    alarm,      \* seconds the pending alarm was armed with, 0: none pending
    PN532,      \* self.PN532, the peripheral handle
    result,     \* outcome of the operation that finished last
    hist        \* observations of the running operation (history only)

vars == <<stack, handler, alarm, PN532, result, hist>>

\* ------------------------------------------------------------------ bounds

\* Counters of hist saturate at MaxCount ("MaxCount or more").
MaxCount == 3

\* Payloads of DATA frames are 1..MaxPayload.
MaxPayload == 2

\* ------------------------------------------------------- program constants

\* def read_response(self, timeout = 3600), def send_command_check_ack(..., timeout = 3600)
DEFAULT_TIMEOUT == 3600

\* The timeouts a caller passes: 0 and a positive one.
Timeouts == {0, 5}

Payloads == 1..MaxPayload

\* ------------------------------------------------------------------ values

\* Python values that are returned or held in locals, as uniform records.
NoneV == [kind |-> "None", type |-> "-", data |-> 0]

BoolV(b) == [kind |-> "bool", type |-> IF b THEN "True" ELSE "False", data |-> 0]

\* The string 'no nfc tag in range' returned on TimeoutException.
NoTag == [kind |-> "str", type |-> "no nfc tag in range", data |-> 0]

\* Pn532Frame(frame_type=t, data=d)
Pn532Frame(t, d) == [kind |-> "frame", type |-> t, data |-> d]

PN532_FRAME_TYPE_ACK == "ACK"

PN532_FRAME_TYPE_DATA == "DATA"

\* The byte window a bus read returns: bytes that do not parse, the bytes of
\* an ACK frame, or the bytes of a DATA frame with a payload.
Bytes(t, d) == [kind |-> "bytes", type |-> t, data |-> d]

Responses ==
    {Bytes("invalid", 0), Bytes(PN532_FRAME_TYPE_ACK, 0)}
        \cup {Bytes(PN532_FRAME_TYPE_DATA, p) : p \in Payloads}

\* Pn532Frame.from_response(response): the frame, or an exception (NoneV here)
\* when the bytes are no valid frame.
from_response(response) ==
    IF response.kind = "bytes" /\ response.type \in {PN532_FRAME_TYPE_ACK, PN532_FRAME_TYPE_DATA}
    THEN Pn532Frame(response.type, response.data)
    ELSE NoneV

\* ------------------------------------------------------------------ frames

Frame(fn, pc, timeout, frame) ==
    [fn |-> fn, pc |-> pc, timeout |-> timeout, frame |-> frame,
     old |-> "-", val |-> NoneV, exc |-> "-"]

Top == stack[Len(stack)]

Pop(stk) == SubSeq(stk, 1, Len(stk) - 1)

SetTop(stk, f) == [stk EXCEPT ![Len(stk)] = f]

At(fn, pc) == stack # <<>> /\ Top.fn = fn /\ Top.pc = pc

Inc(n) == IF n < MaxCount THEN n + 1 ELSE MaxCount

InFn(fn) == \E i \in 1..Len(stack) : stack[i].fn = fn

\* ----------------------------------------------------------------- history

NoResult == [kind |-> "none", val |-> NoneV, exc |-> "-"]

Hist0(op, t) ==
    [op |-> op, T |-> t,
     reads |-> 0,          \* bus read attempts of the operation
     writes |-> 0,         \* bus write attempts of the operation
     scr |-> 0,            \* reads so far match a prefix of [ACK, DATA p]: 0, 1, 2; 3: they do not
     scrP |-> 0,           \* the payload p of that script
     wfault |-> FALSE,     \* a bus write or a reset faulted
     expired |-> FALSE,    \* SIGALRM was delivered
     expiredArm |-> 0,     \* seconds the delivered alarm had been armed with
     expiredAt |-> "-",    \* the statement it was delivered at
     ackRead |-> FALSE,    \* read_ack's poll decoded an ACK frame
     ackWaitData |-> FALSE,\* read_ack's poll handed read_ack a DATA frame
     scAttempts |-> 0,     \* write attempts of the running send_command
     scFailed |-> 0,       \* faulted write attempts of the running send_command
     scResets |-> 0,       \* reset_i2c calls of the running send_command
     wLast |-> "-",        \* outcome of the last write attempt: ok, fault
     wFrame |-> "-",       \* frame type of the last write attempt
     itStarted |-> 0,      \* send_command calls of the poll since its last bus read
     itDone |-> 0,         \* of these, the ones that returned
     pollDone |-> 0,       \* send_command calls of the running poll that returned
     pollAckWritten |-> FALSE, \* the running poll wrote an ACK frame without a fault
     armedBy |-> "-",      \* the function of this operation that armed the pending alarm
     closed |-> FALSE,     \* an __exit__ has completed (kept across operations)
     reclose |-> FALSE]    \* the operation is an __exit__ of a closed session

\* The script observer: successive reads [ACK, DATA p] and nothing else.
ScriptNext(h, outcome) ==
    IF h.scr = 0 /\ outcome.type = PN532_FRAME_TYPE_ACK
    THEN [h EXCEPT !.scr = 1]
    ELSE IF h.scr = 1 /\ outcome.type = PN532_FRAME_TYPE_DATA
    THEN [h EXCEPT !.scr = 2, !.scrP = outcome.data]
    ELSE [h EXCEPT !.scr = 3]

ReadFault == Bytes("fault", 0)

\* ----------------------------------------------------------- exceptions

\* try regions of read_response.
RRInnerTry == {"rr_sleep", "rr_read"}

RRElseTry == {"rr_decode", "rr_send"}

RROuterTry == {"rr_except", "rr_disarm"}

\* try region of send_command: "except Exception" catches every exception,
\* TimeoutException included.
SCTry == {"sc_sleep", "sc_write", "sc_sent"}

\* try region of read_ack.
RATry == {"ra_sleep", "ra_call", "ra_check", "ra_disarm"}

Caught(f) == [caught |-> TRUE, f |-> f]

NotCaught(f) == [caught |-> FALSE, f |-> f]

\* What the frame f does with exception e raised at its statement f.pc.
Catch(f, e) ==
    IF f.fn = "read_response" /\ f.pc \in RRInnerTry
    THEN IF e = "TimeoutException"
         THEN Caught([f EXCEPT !.pc = "rr_finally", !.val = NoTag])
         ELSE Caught([f EXCEPT !.pc = "rr_sleep"])
    ELSE IF f.fn = "read_response" /\ f.pc \in RRElseTry
    THEN IF e = "TimeoutException"
         THEN Caught([f EXCEPT !.pc = "rr_finally", !.val = NoTag])
         ELSE Caught([f EXCEPT !.pc = "rr_except"])
    ELSE IF f.fn = "read_response" /\ f.pc \in RROuterTry
    THEN IF e = "TimeoutException"
         THEN Caught([f EXCEPT !.pc = "rr_finally", !.val = NoTag])
         ELSE Caught([f EXCEPT !.pc = "rr_finally", !.exc = e])
    ELSE IF f.fn = "send_command" /\ f.pc \in SCTry
    THEN Caught([f EXCEPT !.pc = "sc_reset"])
    ELSE IF f.fn = "read_ack" /\ f.pc \in RATry
    THEN IF e = "TimeoutException"
         THEN Caught([f EXCEPT !.pc = "ra_finally", !.val = NoTag])
         ELSE Caught([f EXCEPT !.pc = "ra_finally", !.exc = e])
    ELSE NotCaught(f)

\* The stack after e is raised at the top frame's statement.
RECURSIVE Unwind(_, _)
Unwind(stk, e) ==
    IF stk = <<>> THEN <<>>
    ELSE LET c == Catch(stk[Len(stk)], e)
         IN  IF c.caught THEN SetTop(stk, c.f) ELSE Unwind(Pop(stk), e)

RaiseAt(stk, e) ==
    LET s == Unwind(stk, e)
    IN  /\ stack' = s
        /\ result' = IF s = <<>> THEN [kind |-> "raise", val |-> NoneV, exc |-> e]
                     ELSE result

\* ----------------------------------------------------------- call / return

\* Python truth value of what read_ack returned (if self.read_ack(timeout):).
Truthy(v) == v.kind = "str" \/ (v.kind = "bool" /\ v.type = "True")

\* The caller continues after the call it was suspended at returned v.
Resume(f, v) ==
    IF f.pc = "scac_send" THEN [f EXCEPT !.pc = "scac_ack"]
    ELSE IF f.pc = "scac_ack" THEN [f EXCEPT !.pc = "scac_ret", !.val = v]
    ELSE IF f.pc = "rr_send" THEN [f EXCEPT !.pc = "rr_disarm"]
    ELSE IF f.pc = "ra_call" THEN [f EXCEPT !.pc = "ra_check", !.val = v]
    ELSE IF f.pc = "sc_reset" THEN [f EXCEPT !.pc = "sc_settle"]
    ELSE IF f.pc = "rm_scac" THEN [f EXCEPT !.pc = "rm_poll"]
    ELSE IF f.pc = "rm_poll" THEN [f EXCEPT !.pc = "rm_ret", !.val = v]
    ELSE IF f.pc = "sam_scac" THEN [f EXCEPT !.pc = "sam_ret"]
    ELSE f

\* The top frame returns v.
Return(v) ==
    IF Len(stack) = 1
    THEN /\ stack' = <<>>
         /\ result' = [kind |-> "return", val |-> v, exc |-> "-"]
    ELSE /\ stack' = SetTop(Pop(stack), Resume(stack[Len(stack) - 1], v))
         /\ UNCHANGED result

\* The top frame calls callee, staying at its call statement.
Call(callee) ==
    /\ stack' = Append(stack, callee)
    /\ UNCHANGED result

Goto(pc) ==
    /\ stack' = SetTop(stack, [Top EXCEPT !.pc = pc])
    /\ UNCHANGED result

\* ------------------------------------------------------------------- Init

Init ==
    /\ stack = <<>>
    /\ handler = "SIG_DFL"
    /\ alarm = 0
    /\ PN532 = "live"
    /\ result = NoResult
    /\ hist = Hist0("-", 0)

\* ------------------------------------------------------------- decisions

\* Faulty variants of the auto-acknowledgement test: every decoded frame is
\* acknowledged; no frame is.
NeedsAutoAck_always(frame) == TRUE

NeedsAutoAck_never(frame) == FALSE

\* if frame.get_frame_type() == PN532_FRAME_TYPE_DATA: send the ACK frame
NeedsAutoAck(frame) == frame.type = PN532_FRAME_TYPE_DATA

\* Faulty variant of read_ack's test: any frame ends the wait.
IsAckFrame_any(frame) == frame.kind = "frame"

\* if response_frame.get_frame_type() == PN532_FRAME_TYPE_ACK:
IsAckFrame(frame) == frame.type = PN532_FRAME_TYPE_ACK

\* The timeout read_ack's poll runs under: self.read_response() passes none,
\* so it is read_response's default, whatever read_ack was given.
AckPollTimeout(timeout) == DEFAULT_TIMEOUT

\* The exception a transaction, close or del on a dead handle raises:
\* self.PN532 is the class attribute None after del, a closed master before.
HandleError == IF PN532 = "none" THEN "AttributeError" ELSE "IOError"

\* The function whose signal.alarm(timeout) leaves an alarm pending.
ArmedBy(f) == IF f.timeout > 0 THEN f.fn ELSE "-"

\* ------------------------------------------------------------ operations

\* A caller of the library starts an operation.
Invoke ==
    /\ stack = <<>>
    /\ result.kind # "killed"
    /\ \E op \in {"read_response", "send_command", "send_command_check_ack",
                  "read_mifare", "SAMconfigure", "__exit__"} :
       \E t \in Timeouts \cup {DEFAULT_TIMEOUT} :
          /\ op \in {"send_command", "SAMconfigure", "__exit__"} => t = DEFAULT_TIMEOUT
          /\ hist' = [Hist0(op, t) EXCEPT !.closed = hist.closed,
                                          !.reclose = (op = "__exit__" /\ hist.closed)]
          /\ stack' = << Frame(op,
                               CASE op = "read_response" -> "rr_install"
                                 [] op = "send_command" -> "sc_sleep"
                                 [] op = "send_command_check_ack" -> "scac_send"
                                 [] op = "read_mifare" -> "rm_scac"
                                 [] op = "SAMconfigure" -> "sam_scac"
                                 [] op = "__exit__" -> "ex_close",
                               t,
                               IF op = "send_command" THEN PN532_FRAME_TYPE_DATA ELSE "-") >>
    /\ result' = NoResult
    /\ UNCHANGED <<handler, alarm, PN532>>

\* read_response(self, timeout)
read_response ==
    \/ /\ At("read_response", "rr_install")
       /\ handler' = "module"
       /\ stack' = SetTop(stack, [Top EXCEPT !.pc = "rr_arm", !.old = handler])
       /\ hist' = [hist EXCEPT !.itStarted = 0, !.itDone = 0, !.pollDone = 0,
                                !.pollAckWritten = FALSE]
       /\ UNCHANGED <<alarm, PN532, result>>
    \/ /\ At("read_response", "rr_arm")
       /\ alarm' = Top.timeout
       /\ Goto("rr_sleep")
       /\ hist' = [hist EXCEPT !.armedBy = ArmedBy(Top)]
       /\ UNCHANGED <<handler, PN532>>
    \/ /\ At("read_response", "rr_sleep")
       /\ Goto("rr_read")
       /\ UNCHANGED <<handler, alarm, PN532, hist>>
    \/ /\ At("read_response", "rr_read")
       /\ PN532 # "live"
       /\ RaiseAt(stack, HandleError)
       /\ UNCHANGED <<handler, alarm, PN532, hist>>
    \/ /\ At("read_response", "rr_read")
       /\ PN532 = "live"
       /\ \E r \in Responses \cup {ReadFault} :
            /\ hist' = ScriptNext([hist EXCEPT !.reads = Inc(@), !.itStarted = 0,
                                               !.itDone = 0], r)
            /\ IF r = ReadFault
               THEN RaiseAt(stack, "IOError")
               ELSE /\ stack' = SetTop(stack, [Top EXCEPT !.pc = "rr_decode", !.val = r])
                    /\ UNCHANGED result
       /\ UNCHANGED <<handler, alarm, PN532>>
    \/ /\ At("read_response", "rr_decode")
       /\ LET frame == from_response(Top.val)
          IN  IF frame.kind # "frame"
              THEN /\ RaiseAt(stack, "RuntimeError")
                   /\ UNCHANGED hist
              ELSE LET h == [hist EXCEPT !.ackRead =
                                @ \/ (InFn("read_ack") /\ frame.type = PN532_FRAME_TYPE_ACK)]
                   IN  IF NeedsAutoAck(frame)
                       THEN /\ stack' = Append(
                                   SetTop(stack, [Top EXCEPT !.pc = "rr_send", !.val = frame]),
                                   Frame("send_command", "sc_sleep", 0, PN532_FRAME_TYPE_ACK))
                            /\ hist' = [h EXCEPT !.itStarted = Inc(@), !.scAttempts = 0,
                                                 !.scFailed = 0, !.scResets = 0]
                            /\ UNCHANGED result
                       ELSE /\ stack' = SetTop(stack, [Top EXCEPT !.pc = "rr_disarm", !.val = frame])
                            /\ hist' = h
                            /\ UNCHANGED result
       /\ UNCHANGED <<handler, alarm, PN532>>
    \/ /\ At("read_response", "rr_except")
       /\ Goto("rr_sleep")
       /\ UNCHANGED <<handler, alarm, PN532, hist>>
    \/ /\ At("read_response", "rr_disarm")
       /\ alarm' = 0
       /\ Goto("rr_finally")
       /\ hist' = [hist EXCEPT !.armedBy = "-"]
       /\ UNCHANGED <<handler, PN532>>
    \/ /\ At("read_response", "rr_finally")
       /\ handler' = Top.old
       /\ IF Top.exc # "-" THEN RaiseAt(Pop(stack), Top.exc) ELSE Return(Top.val)
       /\ UNCHANGED <<alarm, PN532, hist>>

\* send_command(self, frame)
send_command ==
    \/ /\ At("send_command", "sc_sleep")
       /\ Goto("sc_write")
       /\ UNCHANGED <<handler, alarm, PN532, hist>>
    \/ /\ At("send_command", "sc_write")
       /\ \E ok \in BOOLEAN :
            /\ PN532 # "live" => ~ok
            /\ hist' = [hist EXCEPT !.scAttempts = Inc(@), !.writes = Inc(@),
                                    !.wFrame = Top.frame,
                                    !.wLast = IF ok THEN "ok" ELSE "fault",
                                    !.scFailed = IF ok THEN @ ELSE Inc(@),
                                    !.pollAckWritten =
                                        @ \/ (ok /\ Top.frame = PN532_FRAME_TYPE_ACK),
                                    !.wfault = @ \/ ~ok]
            /\ IF ok THEN Goto("sc_sent") ELSE RaiseAt(stack, HandleError)
       /\ UNCHANGED <<handler, alarm, PN532>>
    \/ /\ At("send_command", "sc_sent")
       /\ Goto("sc_return")
       /\ UNCHANGED <<handler, alarm, PN532, hist>>
    \/ /\ At("send_command", "sc_return")
       /\ Return(BoolV(TRUE))
       /\ hist' = IF Len(stack) > 1 /\ stack[Len(stack) - 1].fn = "read_response"
                  THEN [hist EXCEPT !.itDone = Inc(@), !.pollDone = Inc(@)]
                  ELSE hist
       /\ UNCHANGED <<handler, alarm, PN532>>
    \/ /\ At("send_command", "sc_reset")
       /\ Call(Frame("reset_i2c", "ri_close", 0, "-"))
       /\ hist' = [hist EXCEPT !.scResets = Inc(@)]
       /\ UNCHANGED <<handler, alarm, PN532>>
    \/ /\ At("send_command", "sc_settle")
       /\ Goto("sc_sleep")
       /\ UNCHANGED <<handler, alarm, PN532, hist>>

\* reset_i2c(self)
reset_i2c ==
    \/ /\ At("reset_i2c", "ri_close")
       /\ IF PN532 = "live"
          THEN Goto("ri_del") /\ PN532' = "closed" /\ UNCHANGED hist
          ELSE /\ RaiseAt(stack, HandleError)
               /\ hist' = [hist EXCEPT !.wfault = TRUE]
               /\ UNCHANGED PN532
       /\ UNCHANGED <<handler, alarm>>
    \/ /\ At("reset_i2c", "ri_del")
       /\ IF PN532 = "none"
          THEN /\ RaiseAt(stack, "AttributeError")
               /\ hist' = [hist EXCEPT !.wfault = TRUE]
               /\ UNCHANGED PN532
          ELSE Goto("ri_open") /\ PN532' = "none" /\ UNCHANGED hist
       /\ UNCHANGED <<handler, alarm>>
    \/ /\ At("reset_i2c", "ri_open")
       /\ \E ok \in BOOLEAN :
            IF ok
            THEN Return(NoneV) /\ PN532' = "live" /\ UNCHANGED hist
            ELSE /\ RaiseAt(stack, "IOError")
                 /\ hist' = [hist EXCEPT !.wfault = TRUE]
                 /\ UNCHANGED PN532
       /\ UNCHANGED <<handler, alarm>>

\* read_ack(self, timeout)
read_ack ==
    \/ /\ At("read_ack", "ra_install")
       /\ handler' = "local"
       /\ stack' = SetTop(stack, [Top EXCEPT !.pc = "ra_arm", !.old = handler])
       /\ UNCHANGED <<alarm, PN532, result, hist>>
    \/ /\ At("read_ack", "ra_arm")
       /\ alarm' = Top.timeout
       /\ Goto("ra_sleep")
       /\ hist' = [hist EXCEPT !.armedBy = ArmedBy(Top)]
       /\ UNCHANGED <<handler, PN532>>
    \/ /\ At("read_ack", "ra_sleep")
       /\ Goto("ra_call")
       /\ UNCHANGED <<handler, alarm, PN532, hist>>
    \/ /\ At("read_ack", "ra_call")
       /\ Call(Frame("read_response", "rr_install", AckPollTimeout(Top.timeout), "-"))
       /\ UNCHANGED <<handler, alarm, PN532, hist>>
    \/ /\ At("read_ack", "ra_check")
       /\ IF Top.val.kind # "frame"
          THEN RaiseAt(stack, "AttributeError")
          ELSE IF IsAckFrame(Top.val) THEN Goto("ra_disarm") ELSE Goto("ra_sleep")
       /\ hist' = [hist EXCEPT !.ackWaitData =
                        @ \/ (Top.val.kind = "frame" /\ Top.val.type = PN532_FRAME_TYPE_DATA)]
       /\ UNCHANGED <<handler, alarm, PN532>>
    \/ /\ At("read_ack", "ra_disarm")
       /\ alarm' = 0
       /\ stack' = SetTop(stack, [Top EXCEPT !.pc = "ra_finally", !.val = BoolV(TRUE)])
       /\ hist' = [hist EXCEPT !.armedBy = "-"]
       /\ UNCHANGED <<handler, PN532, result>>
    \/ /\ At("read_ack", "ra_finally")
       /\ handler' = Top.old
       /\ IF Top.exc # "-" THEN RaiseAt(Pop(stack), Top.exc) ELSE Return(Top.val)
       /\ UNCHANGED <<alarm, PN532, hist>>

\* send_command_check_ack(self, frame, timeout)
send_command_check_ack ==
    \/ /\ At("send_command_check_ack", "scac_send")
       /\ Call(Frame("send_command", "sc_sleep", 0, PN532_FRAME_TYPE_DATA))
       /\ hist' = [hist EXCEPT !.scAttempts = 0, !.scFailed = 0, !.scResets = 0]
       /\ UNCHANGED <<handler, alarm, PN532>>
    \/ /\ At("send_command_check_ack", "scac_ack")
       /\ Call(Frame("read_ack", "ra_install", Top.timeout, "-"))
       /\ UNCHANGED <<handler, alarm, PN532, hist>>
    \/ /\ At("send_command_check_ack", "scac_ret")
       /\ Return(BoolV(Truthy(Top.val)))
       /\ UNCHANGED <<handler, alarm, PN532, hist>>

\* read_mifare(self, timeout)
read_mifare ==
    \/ /\ At("read_mifare", "rm_scac")
       /\ Call(Frame("send_command_check_ack", "scac_send", Top.timeout, "-"))
       /\ UNCHANGED <<handler, alarm, PN532, hist>>
    \/ /\ At("read_mifare", "rm_poll")
       /\ Call(Frame("read_response", "rr_install", Top.timeout, "-"))
       /\ UNCHANGED <<handler, alarm, PN532, hist>>
    \/ /\ At("read_mifare", "rm_ret")
       /\ Return(Top.val)
       /\ UNCHANGED <<handler, alarm, PN532, hist>>

\* SAMconfigure(self, frame=None)
SAMconfigure ==
    \/ /\ At("SAMconfigure", "sam_scac")
       /\ Call(Frame("send_command_check_ack", "scac_send", DEFAULT_TIMEOUT, "-"))
       /\ UNCHANGED <<handler, alarm, PN532, hist>>
    \/ /\ At("SAMconfigure", "sam_ret")
       /\ Return(NoneV)
       /\ UNCHANGED <<handler, alarm, PN532, hist>>

\* __exit__(self, type, value, traceback)
__exit__ ==
    \/ /\ At("__exit__", "ex_close")
       /\ IF PN532 = "live"
          THEN Goto("ex_del") /\ PN532' = "closed"
          ELSE RaiseAt(stack, HandleError) /\ UNCHANGED PN532
       /\ UNCHANGED <<handler, alarm, hist>>
    \/ /\ At("__exit__", "ex_del")
       /\ IF PN532 = "none"
          THEN RaiseAt(stack, "AttributeError") /\ UNCHANGED <<PN532, hist>>
          ELSE /\ Return(NoneV)
               /\ PN532' = "none"
               /\ hist' = [hist EXCEPT !.closed = TRUE]
       /\ UNCHANGED <<handler, alarm>>

\* ---------------------------------------------------------------- SIGALRM

Expired(h, seconds) ==
    [h EXCEPT !.expired = TRUE, !.expiredArm = seconds,
              !.expiredAt = IF stack = <<>> THEN "-" ELSE Top.pc,
              !.armedBy = "-"]

\* The pending alarm expires and the installed handler runs before the next
\* statement: timeout_handler raises TimeoutException there; under SIG_DFL
\* the signal ends the process.  Between operations the exception is the
\* caller's, and no operation's.
timeout_handler ==
    /\ alarm > 0
    /\ alarm' = 0
    /\ hist' = Expired(IF stack = <<>>
                       THEN [Hist0("-", 0) EXCEPT !.closed = hist.closed]
                       ELSE hist, alarm)
    /\ IF handler = "SIG_DFL"
       THEN stack' = <<>> /\ result' = [kind |-> "killed", val |-> NoneV, exc |-> "-"]
       ELSE IF stack = <<>>
       THEN stack' = <<>> /\ result' = [kind |-> "raise", val |-> NoneV,
                                        exc |-> "TimeoutException"]
       ELSE RaiseAt(stack, "TimeoutException")
    /\ UNCHANGED <<handler, PN532>>

\* The pending alarm expires while signal.alarm(timeout) replaces it: the new
\* alarm is armed, and the handler raises at that statement, outside the try.
alarm_race ==
    /\ alarm > 0
    /\ At("read_response", "rr_arm") \/ At("read_ack", "ra_arm")
    /\ alarm' = Top.timeout
    /\ hist' = [Expired(hist, alarm) EXCEPT !.armedBy = ArmedBy(Top)]
    /\ RaiseAt(stack, "TimeoutException")
    /\ UNCHANGED <<handler, PN532>>

\* ------------------------------------------------------------------- Spec

Step ==
    \/ read_response
    \/ send_command
    \/ reset_i2c
    \/ read_ack
    \/ send_command_check_ack
    \/ read_mifare
    \/ SAMconfigure
    \/ __exit__

Next ==
    \/ Invoke
    \/ Step
    \/ timeout_handler
    \/ alarm_race

Spec == Init /\ [][Next]_vars

\* The interpreter keeps executing the running operation, and the kernel
\* delivers a pending alarm.
FairSpec == Spec /\ WF_vars(Step) /\ WF_vars(timeout_handler)

\* ----------------------------------------------------------------- claims

\* The operation op has finished, by a return or by an exception.
Finished(op) == stack = <<>> /\ hist.op = op /\ result.kind \in {"return", "raise"}

Returned(v) == result.kind = "return" /\ result.val = v

IsData(v) == v.kind = "frame" /\ v.type = PN532_FRAME_TYPE_DATA

IsAck(v) == v.kind = "frame" /\ v.type = PN532_FRAME_TYPE_ACK

\* C1: send_command_check_ack returns true if and only if its poll read an
\* ACK frame, wherever the deadline expires.
C1_TrueIffAckRead ==
    Finished("send_command_check_ack") => (Returned(BoolV(TRUE)) <=> hist.ackRead)

C3_ZeroDeadlineNoRead ==
    (hist.op = "read_response" /\ hist.T = 0)
        => /\ hist.reads = 0
           /\ Finished("read_response") => Returned(NoTag)

\* A read_response armed with a positive deadline is in its loop.
PollArmed ==
    \E i \in 1..Len(stack) :
        /\ stack[i].fn = "read_response"
        /\ stack[i].timeout > 0
        /\ stack[i].pc \notin {"rr_install", "rr_arm"}

\* C4: once read_response has armed a positive deadline it eventually returns,
\* for every bus behaviour and wherever the expiry is delivered.
C4_ArmedPollTerminates == PollArmed ~> ~InFn("read_response")

\* C5: the wait for the ACK frame runs under the caller's timeout T: the
\* deadline pending while read_ack polls is T, and an expiry in
\* send_command_check_ack(frame, T) is the expiry of T.
C5_AckWaitBoundedByT ==
    /\ \A i \in 2..Len(stack) :
         (/\ stack[i].fn = "read_response"
          /\ stack[i - 1].fn = "read_ack"
          /\ stack[i - 1].timeout > 0
          /\ stack[i].pc \notin {"rr_install", "rr_arm"}
          /\ alarm > 0)
             => alarm = stack[i - 1].timeout
    /\ (hist.op \in {"send_command_check_ack", "read_mifare"} /\ hist.T > 0 /\ hist.expired)
         => hist.expiredArm = hist.T

\* read_response is about to return a frame to its caller.
PollReturns(v) ==
    At("read_response", "rr_finally") /\ Top.exc = "-" /\ Top.val = v

\* C6: a DATA frame is returned by read_response after exactly one
\* send_command call since the read that produced it, which ended in a
\* fault-free write of an ACK frame; an ACK frame is returned with no
\* send_command call since that read and none completed by that poll.
C6_AutoAck ==
    \A v \in {from_response(r) : r \in Responses} :
        PollReturns(v) =>
            IF IsData(v)
            THEN /\ hist.itStarted = 1 /\ hist.itDone = 1 /\ hist.pollDone = 1
                 /\ hist.wLast = "ok" /\ hist.wFrame = PN532_FRAME_TYPE_ACK
            ELSE IsAck(v) => hist.itStarted = 0 /\ hist.pollDone = 0

C6_Witness ==
    \E p \in Payloads :
        /\ PollReturns(Pn532Frame(PN532_FRAME_TYPE_DATA, p))
        /\ hist.itDone = 1 /\ hist.scFailed > 0

\* C7: send_command returns after a fault-free write, with one reset per failed
\* write: resets = failed writes = writes - 1.
C7_OneResetPerFailedWrite ==
    (At("send_command", "sc_return") /\ hist.scAttempts < MaxCount)
        => /\ hist.wLast = "ok"
           /\ hist.scResets = hist.scFailed
           /\ hist.scFailed = hist.scAttempts - 1

\* C8: no transport fault is propagated to the caller of send_command: the
\* call ends by returning success.
C8_NoFaultLeavesSend ==
    Finished("send_command") => Returned(BoolV(TRUE))

\* The scripted scenario of C9: read_mifare(5), successive bus reads
\* [ACK, DATA p] and no other, no faulted write, no expiry.
C9_Scenario ==
    /\ Finished("read_mifare") /\ hist.T = 5
    /\ hist.scr = 2 /\ ~hist.wfault /\ ~hist.expired

\* C9 as stated: the DATA frame with payload p is returned after two bus reads
\* and one bus write.
C9_TwoReadsOneWrite ==
    C9_Scenario
        => /\ Returned(Pn532Frame(PN532_FRAME_TYPE_DATA, hist.scrP))
           /\ hist.reads = 2 /\ hist.writes = 1

\* C9 amended: the DATA frame with payload p is returned after two bus reads
\* and two bus writes, the command and the ACK of the final DATA frame.
C9_TwoReadsTwoWrites ==
    C9_Scenario
        => /\ Returned(Pn532Frame(PN532_FRAME_TYPE_DATA, hist.scrP))
           /\ hist.reads = 2 /\ hist.writes = 2
           /\ hist.wFrame = PN532_FRAME_TYPE_ACK

C9_Witness == C9_Scenario /\ hist.scrP = MaxPayload /\ hist.writes = 2

\* C10: an expiry of the deadline while send_command_check_ack, SAMconfigure or
\* read_mifare waits for a frame (sleeps or reads in the poll's loop) is not
\* surfaced as an exception.
C10_ExpiryIsNoException ==
    \A op \in {"send_command_check_ack", "SAMconfigure", "read_mifare"} :
        (Finished(op) /\ hist.expired /\ hist.expiredAt \in RRInnerTry)
            => result.kind = "return"

\* C11: an __exit__ of a session that an earlier __exit__ has closed raises
\* no error and leaves the session with no live handle.
C11_CloseIsIdempotent ==
    (Finished("__exit__") /\ hist.reclose)
        => Returned(NoneV) /\ PN532 = "none"

\* C12: an alarm armed by read_response or by read_ack is pending only while
\* that function is running: none of its exits leaves its alarm armed.
C12_NoAlarmLeftArmed ==
    (alarm > 0 /\ hist.armedBy # "-") => InFn(hist.armedBy)

\* C13: read_response is entered, and arms its alarm, while the alarm of the
\* enclosing read_ack is pending only with the budget of that read_ack as its
\* own timeout.
C13_NoNestedArming ==
    ( /\ Len(stack) >= 2
      /\ Top.fn = "read_response" /\ Top.pc \in {"rr_install", "rr_arm"}
      /\ stack[Len(stack) - 1].fn = "read_ack"
      /\ alarm > 0 /\ hist.armedBy = "read_ack" )
        => Top.timeout = stack[Len(stack) - 1].timeout

\* C14: read_response ends in one of two ways only, with a frame or with the
\* string that stands for the expired deadline, and a bus read fault or a
\* response that does not decode is followed by another pass of its loop.
C14_PollOutcomes ==
    /\ [][(InFn("read_response") /\ ~InFn("read_response")')
            => /\ At("read_response", "rr_finally") /\ Top.exc = "-"
               /\ Top.val = NoTag \/ Top.val.kind = "frame"
               /\ IF Len(stack) = 1
                  THEN result'.kind = "return" /\ result'.val = Top.val
                  ELSE stack' # <<>> /\ stack'[Len(stack')].val = Top.val]_vars
    /\ [][(At("read_response", "rr_read") /\ alarm' = alarm
              /\ ~At("read_response", "rr_decode")')
            => At("read_response", "rr_sleep")']_vars
    /\ [][(At("read_response", "rr_decode") /\ from_response(Top.val).kind # "frame"
              /\ alarm' = alarm)
            => At("read_response", "rr_except")']_vars

\* C15: until __exit__ closes the session, self.PN532 is a live handle in
\* every state outside reset_i2c, and no bus read or write is attempted on a
\* handle that reset_i2c has closed.
C15_OneLiveHandle ==
    /\ (~hist.closed /\ ~InFn("reset_i2c") /\ ~InFn("__exit__")) => PN532 = "live"
    /\ (At("read_response", "rr_read") \/ At("send_command", "sc_write"))
          => PN532 # "closed"

\* C16: the poll that read_mifare makes itself starts only after read_ack has
\* read an ACK frame.
C16_PollAfterAck ==
    (stack # <<>> /\ stack[1].fn = "read_mifare" /\ stack[1].pc = "rm_poll")
        => hist.ackRead

\* C17: send_command calls reset_i2c only after a bus write that failed and
\* that no earlier reset_i2c has answered.
C17_ResetOnlyAfterFailedWrite ==
    (At("send_command", "sc_reset") /\ hist.scFailed < MaxCount)
        => hist.scFailed = hist.scResets + 1

\* C18: a read_response that returns the string that stands for the expired
\* deadline has not written the ACK of a DATA frame it decoded.
C18_NoFrameLostOnTimeout ==
    PollReturns(NoTag) => ~hist.pollAckWritten

\* C19: outside read_response and read_ack the SIGALRM handler is the one that
\* was installed before them, and while read_ack runs past its installation
\* with no read_response under it the handler is the one read_ack installed.
C19_HandlerRestored ==
    /\ (~InFn("read_response") /\ ~InFn("read_ack")) => handler = "SIG_DFL"
    /\ (stack # <<>> /\ Top.fn = "read_ack" /\ Top.pc # "ra_install")
          => handler = "local"

====
